---------------------------- MODULE Spec2Model ----------------------------
(***************************************************************************)
(* A model of the array-mapped trie of src/src/trie.rs and of the bitset   *)
(* of src/src/bitset.rs.                                                   *)
(*                                                                         *)
(* Representation.                                                         *)
(*   Option<T>      None is <<>>, Some(x) is <<x>>.                        *)
(*   Bitset         a Wrapping<u32>, held as the set of the positions      *)
(*                  (0..31) of its 1 bits.                                 *)
(*   Arc<[Node<T>]> an address into heap, a sequence of child arrays that  *)
(*                  only ever grows; cloning an Arc copies the address.    *)
(*   Vec<..>        a sequence.                                            *)
(*   usize          a natural number; the keys the model uses stay far     *)
(*                  below usize::MAX, so no arithmetic on them wraps.      *)
(***************************************************************************)
EXTENDS Integers, Sequences, FiniteSets, TLC

(***************************************************************************)
(* Bounds of the exploration.                                              *)
(***************************************************************************)
\* edits (single updates/removes, elements of a batch, staged edits, to_mut
\* calls) per run
MaxOps == 3
\* the same, per run of the small-key specification
MaxSnapOps == 3
\* staged inserts per run of the deep-key specification
MaxDeepOps == 5
\* staged edits per run of the staging specification
MaxStageOps == 4
\* calls of next on one bitset iterator
MaxNext == 3

\* keys: 0 and 1 differ in their depth-0 digit, 31 is the top digit, 32
\* shares the depth-0 digit of 0
Keys == {0, 1, 31, 32}
Vals == {"a", "b"}
\* the keys of the small-key specification, which writes a value of its own
\* with every edit: the n-th edit writes Stamp(n)
SnapKeys == {0, 1, 31}
ValueNames == <<"a", "b", "c", "d", "e", "f">>
Stamp(n) == ValueNames[(n % Len(ValueNames)) + 1]
StampEach(keys, n) == [i \in 1 .. Len(keys) |-> <<keys[i], Stamp(n + i - 1)>>]
\* keys that agree on ever more low-order digits: 32 = 2^5, 1024 = 2^10,
\* 32768 = 2^15
DeepKeys == {0, 1, 32, 1024, 32768}
\* the keys of the staging specification: 32 shares the depth-0 digit of 0
StageKeys == {0, 1, 32}
\* the digits set in the bitsets of the bitset specification
BitDigits == {0, 1, 30, 31}

(***************************************************************************)
(* Option                                                                  *)
(***************************************************************************)
None == <<>>
Some(x) == <<x>>
Unwrap(o) == o[1]

Max(S) == CHOOSE x \in S : \A y \in S : y <= x
Min(S) == CHOOSE x \in S : \A y \in S : x <= y

Pow2(n) == 2 ^ n

(***************************************************************************)
(* bitset.rs: Index32                                                      *)
(***************************************************************************)
\* size_of::<usize>() on a 64-bit target, in bytes
SizeOfUsize == 8
\* the number of bits of usize
UsizeBits == 64

\* Index32::convert: (index >> (depth * 5)) & 0b11111
Index32_convert(index, depth) == (index \div Pow2(depth * 5)) % 32

\* Index32::max_with: convert(usize::MAX, depth); usize::MAX is 2^64 - 1, whose
\* 5-bit digit at a depth with depth*5 + 5 <= 64 is 31, and at depth 12 is 15
Index32_max_with(depth) ==
    IF depth * 5 + 5 <= UsizeBits THEN 31
    ELSE IF depth * 5 < UsizeBits THEN Pow2(UsizeBits - depth * 5) - 1
    ELSE 0

(***************************************************************************)
(* bitset.rs: Bitset, a Wrapping<u32> as the set of its 1 bits             *)
(***************************************************************************)
Bits32 == 0 .. 31
\* W0, W1 << n (the shift amount of a Wrapping<u32> is taken modulo 32)
W0 == {}
W1_shl(n) == {n % 32}
BitNot(b) == Bits32 \ b
count_ones(b) == Cardinality(b)
leading_zeros(b) == IF b = {} THEN 32 ELSE 31 - Max(b)

Bitset_new == W0

\* Bitset::get: self.0 & W1 << index != W0
Bitset_get(b, index) == (b \cap W1_shl(index)) # W0

\* Bitset::set: self.0 |= W1 << index
Bitset_set(b, index) == b \cup W1_shl(index)

\* the mask of Bitset::packed_index: !(W1 << (index + 1) - 1), where the
\* subtraction binds tighter than the shift: !(W1 << ((index + 1) - 1))
PackedMask(index) == BitNot(W1_shl((index + 1) - 1))

\* Bitset::packed_index
Bitset_packed_index(b, index) ==
    IF ~Bitset_get(b, index) THEN None
    ELSE Some(count_ones(b \cap PackedMask(index)))

\* Bitset::iter: the iterator is a copy of the bitset
Bitset_iter(b) == b

\* BitsetIter::next(&mut self): the item, and the iterator after the call;
\* next never writes to self, so the iterator is left as it was
BitsetIter_next(it) ==
    LET count == leading_zeros(it)
    IN [item |-> IF count = 32 THEN None ELSE Some(count), iter |-> it]

(***************************************************************************)
(* trie.rs: the two node types                                             *)
(***************************************************************************)
\* const MAX_DEPTH: usize = (size_of::<usize>() - 1) / 5 + 1
MAX_DEPTH == (SizeOfUsize - 1) \div 5 + 1

One(index, value) == [tag |-> "One", index |-> index, value |-> value]
More(bitset, nodes) == [tag |-> "More", bitset |-> bitset, nodes |-> nodes]

Empty == [tag |-> "Empty"]
Imut(node) == [tag |-> "Imut", node |-> node]
MoreMut(pairs) == [tag |-> "MoreMut", pairs |-> pairs]

\* an Arc::from that writes an array of leaves over the array allocated last
\* instead of allocating
Arc_from_in_place(h, nodes) ==
    IF Len(h) > 0 /\ \A i \in 1 .. Len(nodes) : nodes[i].tag = "One"
    THEN [heap |-> [h EXCEPT ![Len(h)] = nodes], addr |-> Len(h)]
    ELSE [heap |-> Append(h, nodes), addr |-> Len(h) + 1]

\* Arc::from(&nodes[..]): a fresh shared array holding clones of the nodes
Arc_from(h, nodes) == [heap |-> Append(h, nodes), addr |-> Len(h) + 1]

SeqSum(s) ==
    LET RECURSIVE go(_)
        go(i) == IF i > Len(s) THEN 0 ELSE s[i] + go(i + 1)
    IN go(1)

\* a len that counts the children of an Internal node, not the leaves
\* under them
Node_len_children(h, node) ==
    IF node.tag = "One" THEN 1 ELSE Len(h[node.nodes])

\* Node::len
RECURSIVE Node_len(_, _)
Node_len(h, node) ==
    IF node.tag = "One" THEN 1
    ELSE SeqSum([i \in 1 .. Len(h[node.nodes]) |-> Node_len(h, h[node.nodes][i])])

\* Node::get
RECURSIVE Node_get(_, _, _)
Node_get(h, node, index) ==
    LET query == index
    IN IF node.tag = "One" THEN Some(node.value)
       ELSE LET idx == Bitset_packed_index(node.bitset, query % 32)
            IN IF idx = None THEN None
               ELSE Node_get(h, h[node.nodes][Unwrap(idx) + 1], query \div 32)

\* (start..).take_while(|idx| transform(idx) < max_with(depth)): the range
\* start .. TakeWhileEnd - 1; the digit at this depth grows by one every
\* 2^(5*depth) keys, so the first key from start on whose digit is not below
\* max is the one with the digit max and all lower bits clear
TakeWhileEnd(depth, start) ==
    LET unit == Pow2(depth * 5)
        digit == Index32_convert(start, depth)
        max == Index32_max_with(depth)
    IN IF digit >= max THEN start
       ELSE ((start \div unit) + (max - digit)) * unit

\* Node::next_empty
RECURSIVE Node_next_empty(_, _, _, _)
Node_next_empty(h, node, depth, start) ==
    IF depth > MAX_DEPTH THEN None
    ELSE IF node.tag = "One" THEN
        IF node.index # start THEN Some(start)
        ELSE IF Index32_convert(start, depth) = Index32_max_with(depth) THEN None
        ELSE Some(start + 1)
    ELSE
        IF ~Bitset_get(node.bitset, Index32_convert(start, depth)) THEN Some(start)
        ELSE LET body(s) ==
                    LET idx == Bitset_packed_index(node.bitset, Index32_convert(s, depth))
                    IN IF idx = None THEN Some(s)
                       ELSE Node_next_empty(h, h[node.nodes][Unwrap(idx) + 1], depth + 1, s)
                 \* for start in start_iter: the first Some(..) that body yields
                 \* over a .. b-1, scanning upwards
                 RECURSIVE first(_, _)
                 first(a, b) ==
                    IF a >= b THEN None
                    ELSE IF b = a + 1 THEN body(a)
                    ELSE LET mid == (a + b) \div 2
                             l == first(a, mid)
                         IN IF l # None THEN l ELSE first(mid, b)
             IN first(start, TakeWhileEnd(depth, start))

\* make_mut: bitset.iter().zip(nodes).map(|(idx, value)| (idx, Imut(value.clone())))
\* Zip asks the bitset iterator first and stops at the first None of either side
make_mut(h, bitset, nodes) ==
    LET RECURSIVE zip(_, _)
        zip(it, i) ==
            LET a == BitsetIter_next(it)
            IN IF a.item = None \/ i > Len(h[nodes]) THEN <<>>
               ELSE << <<Unwrap(a.item), Imut(h[nodes][i])>> >> \o zip(a.iter, i + 1)
    IN zip(Bitset_iter(bitset), 1)

IsSortedSeq(s) == \A i \in 1 .. Len(s) - 1 : s[i] <= s[i + 1]

\* pairs.binary_search_by_key(&key, |p| p.0) of the standard library, by its
\* contract: the set of results it may give, as [ok, idx] with idx counted
\* from 0.  On a sorted slice: Ok of any matching position, or Err of the
\* insertion point.  On an unsorted slice the result is unspecified: Ok of a
\* matching position or Err of any position.
binary_search_by_key(pairs, key) ==
    LET ks == [i \in 1 .. Len(pairs) |-> pairs[i][1]]
        oks == {[ok |-> TRUE, idx |-> i - 1] : i \in {j \in 1 .. Len(ks) : ks[j] = key}}
    IN IF IsSortedSeq(ks)
       THEN IF oks # {} THEN oks
            ELSE {[ok |-> FALSE, idx |-> Cardinality({j \in 1 .. Len(ks) : ks[j] < key})]}
       ELSE oks \cup {[ok |-> FALSE, idx |-> j] : j \in 0 .. Len(ks)}

\* Vec::insert(idx, e) and Vec::remove(idx), idx counted from 0
Vec_insert(s, idx, e) == SubSeq(s, 1, idx) \o <<e>> \o SubSeq(s, idx + 1, Len(s))
Vec_remove(s, idx) == SubSeq(s, 1, idx) \o SubSeq(s, idx + 2, Len(s))

\* the result of an edit of a staging node: the node afterwards, the value
\* returned, and whether the depth guard (depth > MAX_DEPTH) cut the edit off
Edited(self, res, bound) == [self |-> self, res |-> res, bound |-> bound]

\* NodeMut::insert: the set of results the call may have
RECURSIVE NodeMut_insert(_, _, _, _, _)
NodeMut_insert(h, self, depth, new_index, new_value) ==
    IF depth > MAX_DEPTH THEN {Edited(self, None, TRUE)}
    ELSE IF self.tag = "Empty" THEN
        {Edited(Imut(One(new_index, new_value)), None, FALSE)}
    ELSE IF self.tag = "Imut" /\ self.node.tag = "One" THEN
        IF self.node.index = new_index
        THEN {Edited(Imut(One(self.node.index, new_value)), Some(self.node.value), FALSE)}
        ELSE LET index == self.node.index
                 pairs == << <<Index32_convert(index, depth), Imut(One(index, self.node.value))>>,
                             <<Index32_convert(new_index, depth), Imut(One(new_index, new_value))>> >>
             IN {Edited(MoreMut(IF index > new_index THEN <<pairs[2], pairs[1]>> ELSE pairs),
                        None, FALSE)}
    ELSE IF self.tag = "Imut" THEN
        NodeMut_insert(h, MoreMut(make_mut(h, self.node.bitset, self.node.nodes)),
                       depth, new_index, new_value)
    ELSE
        LET pairs == self.pairs
            index32 == Index32_convert(new_index, depth)
            after(r) ==
                IF r.ok
                THEN {Edited(MoreMut([pairs EXCEPT ![r.idx + 1] = <<pairs[r.idx + 1][1], sub.self>>]),
                             sub.res, sub.bound) :
                        sub \in NodeMut_insert(h, pairs[r.idx + 1][2], depth + 1,
                                               new_index, new_value)}
                ELSE {Edited(MoreMut(Vec_insert(pairs, r.idx,
                                                <<index32, Imut(One(new_index, new_value))>>)),
                             None, FALSE)}
        IN UNION {after(r) : r \in binary_search_by_key(pairs, index32)}

\* the tail of the MoreMut arm of NodeMut::remove: a node left with a single
\* pair that is a leaf becomes that leaf
Collapse(pairs) ==
    IF Len(pairs) = 1 /\ pairs[1][2].tag = "Imut" /\ pairs[1][2].node.tag = "One"
    THEN Imut(One(pairs[1][2].node.index, pairs[1][2].node.value))
    ELSE MoreMut(pairs)

\* NodeMut::remove: the set of results the call may have
RECURSIVE NodeMut_remove(_, _, _, _)
NodeMut_remove(h, self, depth, del_index) ==
    IF depth > MAX_DEPTH THEN {Edited(self, None, TRUE)}
    ELSE IF self.tag = "Empty" THEN {Edited(self, None, FALSE)}
    ELSE IF self.tag = "Imut" /\ self.node.tag = "One" THEN
        IF self.node.index = del_index
        THEN {Edited(Empty, Some(self.node.value), FALSE)}
        ELSE {Edited(self, None, FALSE)}
    ELSE IF self.tag = "Imut" THEN
        IF Bitset_get(self.node.bitset, Index32_convert(del_index, depth))
        THEN NodeMut_remove(h, MoreMut(make_mut(h, self.node.bitset, self.node.nodes)),
                            depth, del_index)
        ELSE {Edited(self, None, FALSE)}
    ELSE
        LET pairs == self.pairs
            after(r) ==
                IF r.ok
                THEN {Edited(Collapse(IF sub.self = Empty
                                      THEN Vec_remove(pairs, r.idx)
                                      ELSE [pairs EXCEPT ![r.idx + 1] =
                                                <<pairs[r.idx + 1][1], sub.self>>]),
                             sub.res, sub.bound) :
                        sub \in NodeMut_remove(h, pairs[r.idx + 1][2], depth + 1, del_index)}
                ELSE {Edited(Collapse(pairs), None, FALSE)}
        IN UNION {after(r) : r \in binary_search_by_key(pairs, Index32_convert(del_index, depth))}

\* NodeMut::into_node: the heap after the call and the Option<Node>
RECURSIVE NodeMut_into_node(_, _)
NodeMut_into_node(h, self) ==
    IF self.tag = "Empty" THEN [heap |-> h, node |-> None]
    ELSE IF self.tag = "Imut" THEN [heap |-> h, node |-> Some(self.node)]
    ELSE
        LET RECURSIVE loop(_, _)
            loop(acc, i) ==
                IF i > Len(self.pairs) THEN acc
                ELSE LET r == NodeMut_into_node(acc.heap, self.pairs[i][2])
                     IN IF r.node # None
                        THEN loop([heap |-> r.heap,
                                   bitset |-> Bitset_set(acc.bitset, self.pairs[i][1]),
                                   nodes |-> Append(acc.nodes, Unwrap(r.node))], i + 1)
                        ELSE loop([acc EXCEPT !.heap = r.heap], i + 1)
            done == loop([heap |-> h, bitset |-> Bitset_new, nodes |-> <<>>], 1)
            arc == Arc_from(done.heap, done.nodes)
        IN [heap |-> arc.heap, node |-> Some(More(done.bitset, arc.addr))]

\* NodeMut::len
RECURSIVE NodeMut_len(_, _)
NodeMut_len(h, self) ==
    IF self.tag = "Empty" THEN 0
    ELSE IF self.tag = "Imut" THEN Node_len(h, self.node)
    ELSE SeqSum([i \in 1 .. Len(self.pairs) |-> NodeMut_len(h, self.pairs[i][2])])

(***************************************************************************)
(* trie.rs: Trie and TrieMut                                               *)
(***************************************************************************)
\* Trie::new
Trie_new == [root |-> None, length |-> 0]

\* Trie::len
Trie_len(t) == t.length

\* Trie::get
Trie_get(h, t, index) ==
    IF t.root = None THEN None ELSE Node_get(h, Unwrap(t.root), index)

\* Trie::to_mut
Trie_to_mut(t) ==
    [root |-> IF t.root # None THEN Imut(Unwrap(t.root)) ELSE Empty]

\* TrieMut::len
TrieMut_len(h, tm) == NodeMut_len(h, tm.root)

\* TrieMut::insert: the set of [tm, res, bound] the call may end in
TrieMut_insert(h, tm, index, value) ==
    {[tm |-> [root |-> e.self], res |-> e.res, bound |-> e.bound] :
        e \in NodeMut_insert(h, tm.root, 0, index, value)}

\* TrieMut::remove
TrieMut_remove(h, tm, index) ==
    {[tm |-> [root |-> e.self], res |-> e.res, bound |-> e.bound] :
        e \in NodeMut_remove(h, tm.root, 0, index)}

\* an into_trie that copies the child array of an Internal root instead of
\* keeping the one it was given
TrieMut_into_trie_copy(h, tm) ==
    LET r == NodeMut_into_node(h, tm.root)
        length == IF r.node = None THEN 0 ELSE Node_len(r.heap, Unwrap(r.node))
    IN IF r.node # None /\ Unwrap(r.node).tag = "More"
       THEN LET arc == Arc_from(r.heap, r.heap[Unwrap(r.node).nodes])
            IN [heap |-> arc.heap,
                trie |-> [root |-> Some(More(Unwrap(r.node).bitset, arc.addr)),
                          length |-> length]]
       ELSE [heap |-> r.heap, trie |-> [root |-> r.node, length |-> length]]

\* TrieMut::into_trie: the heap after the call and the new Trie
TrieMut_into_trie(h, tm) ==
    LET r == NodeMut_into_node(h, tm.root)
        length == IF r.node = None THEN 0 ELSE Node_len(r.heap, Unwrap(r.node))
    IN [heap |-> r.heap, trie |-> [root |-> r.node, length |-> length]]

\* Trie::update: the set of [heap, trie] the call may end in
Trie_update(h, t, index, value) ==
    {TrieMut_into_trie(h, e.tm) : e \in TrieMut_insert(h, Trie_to_mut(t), index, value)}

\* Trie::remove
Trie_remove(h, t, index) ==
    {TrieMut_into_trie(h, e.tm) : e \in TrieMut_remove(h, Trie_to_mut(t), index)}

\* the staging maps after inserting iter[i], iter[i+1], .. in turn into any of tms
RECURSIVE InsertEach(_, _, _, _)
InsertEach(h, tms, iter, i) ==
    IF i > Len(iter) THEN tms
    ELSE InsertEach(h, UNION {{e.tm : e \in TrieMut_insert(h, tm, iter[i][1], iter[i][2])} :
                                 tm \in tms},
                    iter, i + 1)

\* the staging maps after removing iter[i], iter[i+1], .. in turn from any of tms
RECURSIVE RemoveEach(_, _, _, _)
RemoveEach(h, tms, iter, i) ==
    IF i > Len(iter) THEN tms
    ELSE RemoveEach(h, UNION {{e.tm : e \in TrieMut_remove(h, tm, iter[i])} : tm \in tms},
                    iter, i + 1)

\* Trie::update_all, iter a sequence of <<index, value>>
Trie_update_all(h, t, iter) ==
    IF Len(iter) = 0 THEN {[heap |-> h, trie |-> t]}
    ELSE {TrieMut_into_trie(h, tm) : tm \in InsertEach(h, {Trie_to_mut(t)}, iter, 1)}

\* Trie::remove_all, iter a sequence of indices
Trie_remove_all(h, t, iter) ==
    IF Len(iter) = 0 THEN {[heap |-> h, trie |-> t]}
    ELSE {TrieMut_into_trie(h, tm) : tm \in RemoveEach(h, {Trie_to_mut(t)}, iter, 1)}

\* Trie::next_empty
Trie_next_empty(h, t, start) ==
    IF t.root = None THEN Some(start)
    ELSE LET first == Node_next_empty(h, Unwrap(t.root), 0, start)
         IN IF first # None THEN first ELSE Node_next_empty(h, Unwrap(t.root), 0, 0)

(***************************************************************************)
(* The state: the arrays allocated so far, the current map, the map the    *)
(* current one was made from, a staging map while a batch of edits is      *)
(* open, and the calls made so far; and a Bitset with the last rank asked  *)
(* of it and an iterator over it.                                          *)
(***************************************************************************)
VARIABLES
    heap,       \* the Arc<[Node<T>]> arrays allocated so far, by address
    trie,       \* the Trie the program holds
    snap,       \* the Trie that the last to_mut (alone or inside update,
                \* remove, update_all, remove_all) was called on
    snapObs,    \* what snap answered when to_mut was called on it
    tmut,       \* None, or Some(the TrieMut of the open batch)
    hist,       \* the calls made so far, oldest first
    nops,       \* the edits spent so far
    bits,       \* a Bitset, built by Bitset::set
    asked,      \* None, or Some(the last packed_index call: the bitset, the
                \* index, the result)
    biter,      \* None, or Some(the bitset iter was called on and the
                \* BitsetIter as it is now)
    yielded     \* what next has returned on biter, oldest first

trieVars == <<heap, trie, snap, snapObs, tmut, hist, nops>>
bitsetVars == <<bits, asked, biter, yielded>>
vars == <<heap, trie, snap, snapObs, tmut, hist, nops, bits, asked, biter, yielded>>

\* a call: its name, its arguments, the value it returned (staged edits)
\* and whether the depth guard cut it off
Call(op, index, value, items, res, bound) ==
    [op |-> op, index |-> index, value |-> value, items |-> items,
     res |-> res, bound |-> bound]

\* the keys a map is asked about when it is observed
ObsKeys == Keys

\* everything a caller can read from a Trie
Obs(h, t) ==
    [len |-> Trie_len(t),
     get |-> [k \in ObsKeys |-> Trie_get(h, t, k)],
     next_empty |-> [k \in ObsKeys |-> Trie_next_empty(h, t, k)]]

Init ==
    /\ heap = <<>>
    /\ trie = Trie_new
    /\ snap = Trie_new
    /\ snapObs = Obs(<<>>, Trie_new)
    /\ tmut = None
    /\ hist = <<>>
    /\ nops = 0
    /\ bits = Bitset_new
    /\ asked = None
    /\ biter = None
    /\ yielded = <<>>

\* the sequences over S of length 0 .. n
SeqsUpTo(S, n) == UNION {[1 .. m -> S] : m \in 0 .. n}

\* the edits a batch costs; an open batch without edits is charged its one
\* edit when it is committed
Cost(iter) == IF Len(iter) = 0 THEN 1 ELSE Len(iter)

\* trie = trie.update(index, value)
Update(index, value, budget) ==
    /\ tmut = None
    /\ nops < budget
    /\ \E out \in Trie_update(heap, trie, index, value) :
          /\ heap' = out.heap
          /\ trie' = out.trie
    /\ snap' = trie
    /\ snapObs' = Obs(heap, trie)
    /\ hist' = Append(hist, Call("update", index, value, <<>>, None, FALSE))
    /\ nops' = nops + 1
    /\ UNCHANGED tmut
    /\ UNCHANGED bitsetVars

\* trie = trie.remove(index)
Remove(index, budget) ==
    /\ tmut = None
    /\ nops < budget
    /\ \E out \in Trie_remove(heap, trie, index) :
          /\ heap' = out.heap
          /\ trie' = out.trie
    /\ snap' = trie
    /\ snapObs' = Obs(heap, trie)
    /\ hist' = Append(hist, Call("remove", index, "a", <<>>, None, FALSE))
    /\ nops' = nops + 1
    /\ UNCHANGED tmut
    /\ UNCHANGED bitsetVars

\* trie = trie.update_all(iter)
UpdateAll(iter, budget) ==
    /\ tmut = None
    /\ nops + Cost(iter) <= budget
    /\ \E out \in Trie_update_all(heap, trie, iter) :
          /\ heap' = out.heap
          /\ trie' = out.trie
    /\ snap' = trie
    /\ snapObs' = Obs(heap, trie)
    /\ hist' = Append(hist, Call("update_all", 0, "a", iter, None, FALSE))
    /\ nops' = nops + Cost(iter)
    /\ UNCHANGED tmut
    /\ UNCHANGED bitsetVars

\* trie = trie.remove_all(iter)
RemoveAll(iter, budget) ==
    /\ tmut = None
    /\ nops + Cost(iter) <= budget
    /\ \E out \in Trie_remove_all(heap, trie, iter) :
          /\ heap' = out.heap
          /\ trie' = out.trie
    /\ snap' = trie
    /\ snapObs' = Obs(heap, trie)
    /\ hist' = Append(hist, Call("remove_all", 0, "a", iter, None, FALSE))
    /\ nops' = nops + Cost(iter)
    /\ UNCHANGED tmut
    /\ UNCHANGED bitsetVars

\* let mut trie_mut = trie.to_mut()
ToMut(budget) ==
    /\ tmut = None
    /\ nops < budget
    /\ tmut' = Some(Trie_to_mut(trie))
    /\ snap' = trie
    /\ snapObs' = Obs(heap, trie)
    /\ hist' = Append(hist, Call("to_mut", 0, "a", <<>>, None, FALSE))
    /\ UNCHANGED <<heap, trie, nops>>
    /\ UNCHANGED bitsetVars

\* trie_mut.insert(index, value)
Insert(index, value, budget) ==
    /\ tmut # None
    /\ nops < budget
    /\ \E e \in TrieMut_insert(heap, Unwrap(tmut), index, value) :
          /\ tmut' = Some(e.tm)
          /\ hist' = Append(hist, Call("insert", index, value, <<>>, e.res, e.bound))
    /\ nops' = nops + 1
    /\ UNCHANGED <<heap, trie, snap, snapObs>>
    /\ UNCHANGED bitsetVars

\* trie_mut.remove(index)
RemoveMut(index, budget) ==
    /\ tmut # None
    /\ nops < budget
    /\ \E e \in TrieMut_remove(heap, Unwrap(tmut), index) :
          /\ tmut' = Some(e.tm)
          /\ hist' = Append(hist, Call("remove_mut", index, "a", <<>>, e.res, e.bound))
    /\ nops' = nops + 1
    /\ UNCHANGED <<heap, trie, snap, snapObs>>
    /\ UNCHANGED bitsetVars

\* trie = trie_mut.into_trie()
IntoTrie ==
    /\ tmut # None
    /\ LET out == TrieMut_into_trie(heap, Unwrap(tmut))
       IN /\ heap' = out.heap
          /\ trie' = out.trie
    /\ tmut' = None
    /\ hist' = Append(hist, Call("into_trie", 0, "a", <<>>, None, FALSE))
    /\ nops' = IF hist[Len(hist)].op = "to_mut" THEN nops + 1 ELSE nops
    /\ UNCHANGED <<snap, snapObs>>
    /\ UNCHANGED bitsetVars

\* the batches are the ones that fit the edits left
Next ==
    \/ \E k \in Keys, v \in Vals : Update(k, v, MaxOps)
    \/ \E k \in Keys : Remove(k, MaxOps)
    \/ \E iter \in SeqsUpTo(Keys \X Vals, MaxOps - nops) : UpdateAll(iter, MaxOps)
    \/ \E iter \in SeqsUpTo(Keys, MaxOps - nops) : RemoveAll(iter, MaxOps)
    \/ ToMut(MaxOps)
    \/ \E k \in Keys, v \in Vals : Insert(k, v, MaxOps)
    \/ \E k \in Keys : RemoveMut(k, MaxOps)
    \/ IntoTrie

Spec == Init /\ [][Next]_vars

\* the same calls over the small key set, each edit writing its own value
NextSnap ==
    \/ \E k \in SnapKeys : Update(k, Stamp(nops), MaxSnapOps)
    \/ \E k \in SnapKeys : Remove(k, MaxSnapOps)
    \/ \E keys \in SeqsUpTo(SnapKeys, MaxSnapOps - nops) :
          UpdateAll(StampEach(keys, nops), MaxSnapOps)
    \/ \E iter \in SeqsUpTo(SnapKeys, MaxSnapOps - nops) : RemoveAll(iter, MaxSnapOps)
    \/ ToMut(MaxSnapOps)
    \/ \E k \in SnapKeys : Insert(k, Stamp(nops), MaxSnapOps)
    \/ \E k \in SnapKeys : RemoveMut(k, MaxSnapOps)
    \/ IntoTrie

SpecSnap == Init /\ [][NextSnap]_vars

\* one batch of staged inserts of keys that share their low-order digits
NextDeep ==
    \/ ToMut(1)
    \/ \E k \in DeepKeys : Insert(k, "a", MaxDeepOps)
    \/ IntoTrie

SpecDeep == Init /\ [][NextDeep]_vars

\* batches of staged inserts and removes, each edit writing its own value
NextStage ==
    \/ ToMut(MaxStageOps)
    \/ \E k \in StageKeys : Insert(k, Stamp(nops), MaxStageOps)
    \/ \E k \in StageKeys : RemoveMut(k, MaxStageOps)
    \/ IntoTrie

SpecStage == Init /\ [][NextStage]_vars

\* bits.set(index)
BitsetSet(index) ==
    /\ bits' = Bitset_set(bits, index)
    /\ UNCHANGED <<asked, biter, yielded>>
    /\ UNCHANGED trieVars

\* bits.packed_index(index)
PackedIndex(index) ==
    /\ asked' = Some([bitset |-> bits, index |-> index,
                      res |-> Bitset_packed_index(bits, index)])
    /\ UNCHANGED <<bits, biter, yielded>>
    /\ UNCHANGED trieVars

\* let mut iter = bits.iter()
Iter ==
    /\ biter' = Some([of |-> bits, it |-> Bitset_iter(bits)])
    /\ yielded' = <<>>
    /\ UNCHANGED <<bits, asked>>
    /\ UNCHANGED trieVars

\* iter.next()
IterNext ==
    /\ biter # None
    /\ Len(yielded) < MaxNext
    /\ LET r == BitsetIter_next(Unwrap(biter).it)
       IN /\ biter' = Some([Unwrap(biter) EXCEPT !.it = r.iter])
          /\ yielded' = Append(yielded, r.item)
    /\ UNCHANGED <<bits, asked>>
    /\ UNCHANGED trieVars

\* the calls on one Bitset
NextBitset ==
    \/ \E d \in BitDigits : BitsetSet(d)
    \/ \E d \in Bits32 : PackedIndex(d)
    \/ Iter
    \/ IterNext

SpecBitset == Init /\ [][NextBitset]_vars

(***************************************************************************)
(* What the calls made so far should have left in the map: the keys        *)
(* inserted and not removed since, with the value last given to each.      *)
(***************************************************************************)
Last == hist[Len(hist)]
LastIs(op) == Len(hist) > 0 /\ Last.op = op
Front(s) == SubSeq(s, 1, Len(s) - 1)

Put(f, k, v) == [x \in DOMAIN f \cup {k} |-> IF x = k THEN v ELSE f[x]]
Del(f, k) == [x \in DOMAIN f \ {k} |-> f[x]]
NoEntries == [x \in {} |-> "a"]

RECURSIVE PutEach(_, _, _)
PutEach(f, items, i) ==
    IF i > Len(items) THEN f ELSE PutEach(Put(f, items[i][1], items[i][2]), items, i + 1)

RECURSIVE DelEach(_, _, _)
DelEach(f, items, i) ==
    IF i > Len(items) THEN f ELSE DelEach(Del(f, items[i]), items, i + 1)

ApplyCall(f, c) ==
    IF c.op \in {"update", "insert"} THEN Put(f, c.index, c.value)
    ELSE IF c.op \in {"remove", "remove_mut"} THEN Del(f, c.index)
    ELSE IF c.op = "update_all" THEN PutEach(f, c.items, 1)
    ELSE IF c.op = "remove_all" THEN DelEach(f, c.items, 1)
    ELSE f

RECURSIVE Entries(_)
Entries(calls) ==
    IF Len(calls) = 0 THEN NoEntries ELSE ApplyCall(Entries(Front(calls)), calls[Len(calls)])

\* two maps answer get and len alike
SameGetLen(h1, t1, h2, t2) ==
    /\ Trie_len(t1) = Trie_len(t2)
    /\ \A k \in ObsKeys : Trie_get(h1, t1, k) = Trie_get(h2, t2, k)

\* the calls so far are all update or remove
OnlyUpdateRemove == \A i \in 1 .. Len(hist) : hist[i].op \in {"update", "remove"}

(***************************************************************************)
(* C1  Round trip: after update(m, k, v), get of k answers Some(v).        *)
(***************************************************************************)
C1_RoundTrip ==
    LastIs("update") => Trie_get(heap, trie, Last.index) = Some(Last.value)

(***************************************************************************)
(* C2  Non-interference: after update(m, k1, v), get of every other key    *)
(* k2 answers what it answered on m.                                       *)
(***************************************************************************)
C2_NonInterference ==
    LastIs("update") =>
        \A k2 \in Keys \ {Last.index} :
            Trie_get(heap, trie, k2) = Trie_get(heap, snap, k2)

(***************************************************************************)
(* C3  Deletion: after remove(update(m, k, v), k), get of k answers None.  *)
(***************************************************************************)
C3_Deletion ==
    (/\ Len(hist) >= 2
     /\ Last.op = "remove"
     /\ hist[Len(hist) - 1].op = "update"
     /\ hist[Len(hist) - 1].index = Last.index)
    => Trie_get(heap, trie, Last.index) = None

(***************************************************************************)
(* C4  Length accounting: after updates and removes only, len is the       *)
(* number of keys inserted and not removed since; an update of a key that  *)
(* is present and a remove of a key that is absent leave len as it was.    *)
(***************************************************************************)
C4_LengthAccounting ==
    OnlyUpdateRemove =>
        /\ Trie_len(trie) = Cardinality(DOMAIN Entries(hist))
        /\ (LastIs("update") /\ Last.index \in DOMAIN Entries(Front(hist)))
              => Trie_len(trie) = Trie_len(snap)
        /\ (LastIs("remove") /\ Last.index \notin DOMAIN Entries(Front(hist)))
              => Trie_len(trie) = Trie_len(snap)

(***************************************************************************)
(* C5  Snapshot immutability: the map that to_mut was called on (alone or  *)
(* inside update, remove, update_all, remove_all) answers get, len and     *)
(* next_empty for every key as it did when to_mut was called, whatever was *)
(* staged and committed since.                                             *)
(***************************************************************************)
C5_SnapshotImmutable == Obs(heap, snap) = snapObs

\* a batch of staged edits on a snapshot with an Internal root was committed
\* into a different map
C5_Witness ==
    /\ LastIs("into_trie")
    /\ hist[Len(hist) - 1].op \in {"insert", "remove_mut"}
    /\ snap.root # None
    /\ Unwrap(snap.root).tag = "More"
    /\ trie # snap

\* the maps that applying update to items[i], items[i+1], .. one at a time
\* may end in, starting from any of outs
RECURSIVE UpdateEach(_, _, _)
UpdateEach(outs, items, i) ==
    IF i > Len(items) THEN outs
    ELSE UpdateEach(UNION {Trie_update(o.heap, o.trie, items[i][1], items[i][2]) : o \in outs},
                    items, i + 1)

RECURSIVE RemoveOneByOne(_, _, _)
RemoveOneByOne(outs, items, i) ==
    IF i > Len(items) THEN outs
    ELSE RemoveOneByOne(UNION {Trie_remove(o.heap, o.trie, items[i]) : o \in outs},
                        items, i + 1)

(***************************************************************************)
(* C6  Batch equivalence: the map update_all(m, pairs) answers get and len *)
(* as a map that applying update to the pairs one at a time ends in, and   *)
(* remove_all(m, keys) as a map that applying remove one at a time ends in.*)
(***************************************************************************)
C6_BatchEquivalence ==
    /\ LastIs("update_all") =>
          \E s \in UpdateEach({[heap |-> heap, trie |-> snap]}, Last.items, 1) :
              SameGetLen(heap, trie, s.heap, s.trie)
    /\ LastIs("remove_all") =>
          \E s \in RemoveOneByOne({[heap |-> heap, trie |-> snap]}, Last.items, 1) :
              SameGetLen(heap, trie, s.heap, s.trie)

\* the smallest key from start on that is not among live; one of the
\* Cardinality(live) + 1 keys from start on is free
SmallestFree(live, start) ==
    Min({k \in start .. start + Cardinality(live) : k \notin live})

(***************************************************************************)
(* C7  Free-slot search: next_empty(m, start) is Some of the smallest key  *)
(* from start on that is not in m (Some(start) on the empty map).          *)
(***************************************************************************)
C7_FreeSlot ==
    tmut = None =>
        \A start \in Keys :
            Trie_next_empty(heap, trie, start)
                = Some(SmallestFree(DOMAIN Entries(hist), start))

(***************************************************************************)
(* C8  Removing a key that is not in the map leaves get of every key and   *)
(* len as they were.                                                       *)
(***************************************************************************)
C8_RemoveAbsent ==
    (LastIs("remove") /\ Last.index \notin DOMAIN Entries(Front(hist)))
    => SameGetLen(heap, trie, heap, snap)

(***************************************************************************)
(* C9  Key-space coverage: MAX_DEPTH covers every bit of the key, so no    *)
(* insert or remove is cut off by the depth guard.                         *)
(***************************************************************************)
C9_DepthBoundNeverReached == \A i \in 1 .. Len(hist) : ~hist[i].bound

\* the calls so far are updates of keys with pairwise distinct depth-0 digits
DistinctDigitUpdates ==
    /\ Len(hist) >= 2
    /\ \A i \in 1 .. Len(hist) : hist[i].op = "update"
    /\ \A i, j \in 1 .. Len(hist) :
          i # j => Index32_convert(hist[i].index, 0) # Index32_convert(hist[j].index, 0)

(***************************************************************************)
(* C10  First branching level: after n >= 2 updates of keys with pairwise  *)
(* distinct depth-0 digits on the empty map, len is n, every key answers   *)
(* its value, and the root is an Internal node with n children.            *)
(***************************************************************************)
C10_FirstBranchingLevel ==
    DistinctDigitUpdates =>
        /\ Trie_len(trie) = Len(hist)
        /\ \A i \in 1 .. Len(hist) :
              Trie_get(heap, trie, hist[i].index) = Some(hist[i].value)
        /\ trie.root # None
        /\ Unwrap(trie.root).tag = "More"
        /\ Len(heap[Unwrap(trie.root).nodes]) = Len(hist)

\* what a staged edit of key k should return on the entries f: the value k
\* had, if it had one
Previous(f, k) == IF k \in DOMAIN f THEN Some(f[k]) ELSE None

(***************************************************************************)
(* C11  Previous-value results: a staged insert(k, v) or remove(k) returns *)
(* Some(old) when k was in the map with the value old right before the     *)
(* call, and None when k was not in it.                                    *)
(***************************************************************************)
C11_PreviousValue ==
    (LastIs("insert") \/ LastIs("remove_mut"))
    => Last.res = Previous(Entries(Front(hist)), Last.index)

\* the rank of digit d in bitmap b: the number of set bits below d
Rank(b, d) == Cardinality({x \in b : x < d})

\* the Internal node has a child for digit d, and that child
HasChildAt(h, node, d) == d \in node.bitset /\ Rank(node.bitset, d) < Len(h[node.nodes])
ChildAt(h, node, d) == h[node.nodes][Rank(node.bitset, d) + 1]

\* every subtree of old off the digit path of key k is found in new at the
\* same digit and is the same node (a leaf with the same key and value, an
\* Internal node with the same bitmap and the same child array)
RECURSIVE SharesOffPath(_, _, _, _, _)
SharesOffPath(h, old, new, depth, k) ==
    IF old.tag = "One" THEN TRUE
    ELSE /\ new.tag = "More"
         /\ \A d \in old.bitset :
               HasChildAt(h, old, d) =>
                  /\ HasChildAt(h, new, d)
                  /\ IF d # Index32_convert(k, depth)
                     THEN ChildAt(h, new, d) = ChildAt(h, old, d)
                     ELSE SharesOffPath(h, ChildAt(h, old, d), ChildAt(h, new, d),
                                        depth + 1, k)

(***************************************************************************)
(* C12  Structural sharing: after update(m, k, v), every subtree of m off  *)
(* the root-to-k digit path is in the new map at the same digit and is the *)
(* very node of m (it shares m's child array).                             *)
(***************************************************************************)
C12_StructuralSharing ==
    (LastIs("update") /\ snap.root # None)
    => /\ trie.root # None
       /\ SharesOffPath(heap, Unwrap(snap.root), Unwrap(trie.root), 0, Last.index)

(***************************************************************************)
(* C13  Rank: packed_index(b, d) is None when bit d of b is clear, and     *)
(* otherwise Some of the number of set bits of b below d.                  *)
(***************************************************************************)
C13_Rank ==
    asked # None =>
        LET a == Unwrap(asked)
        IN a.res = IF a.index \notin a.bitset THEN None
                   ELSE Some(Rank(a.bitset, a.index))

\* the i-th set digit of bitmap b in ascending order, i from 1
NthDigit(b, i) == CHOOSE x \in b : Rank(b, x) = i - 1

(***************************************************************************)
(* C14  Bitmap iteration: the calls of next on iter(b) return the set      *)
(* digits of b in ascending order, each once, and None from call           *)
(* popcount(b) + 1 on.                                                     *)
(***************************************************************************)
C14_Iteration ==
    biter # None =>
        LET b == Unwrap(biter).of
        IN \A i \in 1 .. Len(yielded) :
              yielded[i] = IF i <= Cardinality(b) THEN Some(NthDigit(b, i)) ELSE None

\* the first staged edit after to_mut reached the Internal root of the
\* snapshot and thawed it (a remove thaws only when the bitmap has the digit)
ThawedRoot ==
    /\ Len(hist) >= 2
    /\ hist[Len(hist) - 1].op = "to_mut"
    /\ snap.root # None
    /\ Unwrap(snap.root).tag = "More"
    /\ \/ Last.op = "insert"
       \/ /\ Last.op = "remove_mut"
          /\ Bitset_get(Unwrap(snap.root).bitset, Index32_convert(Last.index, 0))

\* one pair per set digit of b, ascending, the pair of digit d holding the
\* child at rank(b, d)
PairPerDigit(h, b, nodes) ==
    [i \in 1 .. Cardinality(b) |-> <<NthDigit(b, i), Imut(h[nodes][i])>>]

(***************************************************************************)
(* C15  Thaw of an Internal node: the Growing node that an Internal node   *)
(* with bitmap b and children c is rebuilt into has one pair per set digit *)
(* of b, in ascending digit order, the pair of digit d holding             *)
(* Frozen(c[rank(b, d)]).                                                  *)
(***************************************************************************)
C15_ThawKeepsDigits ==
    (ThawedRoot /\ Len(heap[Unwrap(snap.root).nodes])
                      = count_ones(Unwrap(snap.root).bitset))
    => make_mut(heap, Unwrap(snap.root).bitset, Unwrap(snap.root).nodes)
          = PairPerDigit(heap, Unwrap(snap.root).bitset, Unwrap(snap.root).nodes)

\* the pairs of every Growing node of a staging tree are strictly ascending
\* by digit
RECURSIVE AscendingDigits(_)
AscendingDigits(self) ==
    self.tag = "MoreMut" =>
        /\ \A i \in 1 .. Len(self.pairs) - 1 : self.pairs[i][1] < self.pairs[i + 1][1]
        /\ \A i \in 1 .. Len(self.pairs) : AscendingDigits(self.pairs[i][2])

(***************************************************************************)
(* C16  Digit ordering: the pairs of every Growing node of the staging     *)
(* tree are strictly ascending by digit, no digit twice; so the two keys   *)
(* of a split Leaf are each at their own digit, in ascending order.        *)
(***************************************************************************)
C16_DigitOrdering == tmut # None => AscendingDigits(Unwrap(tmut).root)

\* the keys of the leaves under a node
RECURSIVE KeysUnder(_, _)
KeysUnder(h, node) ==
    IF node.tag = "One" THEN {node.index}
    ELSE UNION {KeysUnder(h, h[node.nodes][i]) : i \in 1 .. Len(h[node.nodes])}

\* every Internal node under node, itself at the given depth, has as many
\* children as its bitmap has bits, and the keys under its i-th child have
\* the i-th set digit of the bitmap at the node's depth
RECURSIVE Consistent(_, _, _)
Consistent(h, node, depth) ==
    node.tag = "More" =>
        /\ Len(h[node.nodes]) = count_ones(node.bitset)
        /\ \A i \in 1 .. Len(h[node.nodes]) :
              /\ \A k \in KeysUnder(h, h[node.nodes][i]) :
                    Index32_convert(k, depth) = NthDigit(node.bitset, i)
              /\ Consistent(h, h[node.nodes][i], depth + 1)

(***************************************************************************)
(* C17  Bitmap/children consistency: every Internal node of the committed  *)
(* map has popcount(bitmap) children, one for each set digit, and the keys *)
(* under the child at rank(bitmap, d) have digit d at the node's depth.    *)
(***************************************************************************)
C17_BitmapChildren == trie.root # None => Consistent(heap, Unwrap(trie.root), 0)

\* the Leaf nodes reachable from a node, each named by the child positions
\* that lead to it
RECURSIVE LeafPaths(_, _)
LeafPaths(h, node) ==
    IF node.tag = "One" THEN {<<>>}
    ELSE UNION {{<<i>> \o path : path \in LeafPaths(h, h[node.nodes][i])} :
                   i \in 1 .. Len(h[node.nodes])}

\* the number of Leaf nodes reachable from the root of a map
LeafCount(h, t) ==
    IF t.root = None THEN 0 ELSE Cardinality(LeafPaths(h, Unwrap(t.root)))

\* every Internal node under node has at least 2 children
RECURSIVE FanOut2(_, _)
FanOut2(h, node) ==
    node.tag = "More" =>
        /\ Len(h[node.nodes]) >= 2
        /\ \A i \in 1 .. Len(h[node.nodes]) : FanOut2(h, h[node.nodes][i])

(***************************************************************************)
(* C18  Minimum fan-out: every Internal node of the committed map has at   *)
(* least 2 children; a map holding exactly one entry is a single Leaf root *)
(* and a map holding no entry has no root.                                 *)
(***************************************************************************)
C18_MinimumFanOut ==
    /\ trie.root # None => FanOut2(heap, Unwrap(trie.root))
    /\ tmut = None =>
          LET n == Cardinality(DOMAIN Entries(hist))
          IN /\ n = 1 => trie.root # None /\ Unwrap(trie.root).tag = "One"
             /\ n = 0 => trie.root = None

(***************************************************************************)
(* C19  Cached length: the stored length of the map is the number of Leaf  *)
(* nodes reachable from its root (0 without a root), and len of a staging  *)
(* map is len of the map it is committed into.                             *)
(***************************************************************************)
C19_CachedLength ==
    /\ trie.length = LeafCount(heap, trie)
    /\ tmut # None =>
          TrieMut_len(heap, Unwrap(tmut))
              = Trie_len(TrieMut_into_trie(heap, Unwrap(tmut)).trie)

\* a batch of staged edits was committed into a map of at least 3 leaves
\* whose root has an Internal child
C19_Witness ==
    /\ LastIs("into_trie")
    /\ hist[Len(hist) - 1].op \in {"insert", "remove_mut"}
    /\ trie.length >= 3
    /\ trie.root # None
    /\ Unwrap(trie.root).tag = "More"
    /\ \E i \in 1 .. Len(heap[Unwrap(trie.root).nodes]) :
          heap[Unwrap(trie.root).nodes][i].tag = "More"

(***************************************************************************)
(* C20  Freeze after thaw is the identity: into_trie right after to_mut    *)
(* gives a map with the root of the map to_mut was called on (the same     *)
(* node, the same child array) and the same len; an Empty staging root     *)
(* commits to a map with no root and len 0.                                *)
(***************************************************************************)
C20_FreezeAfterThaw ==
    /\ (Len(hist) >= 2 /\ Last.op = "into_trie" /\ hist[Len(hist) - 1].op = "to_mut")
          => /\ trie.root = snap.root
             /\ Trie_len(trie) = Trie_len(snap)
    /\ (tmut # None /\ Unwrap(tmut).root = Empty)
          => TrieMut_into_trie(heap, Unwrap(tmut)) = [heap |-> heap, trie |-> Trie_new]

\* a map with an Internal root was thawed and committed at once
C20_Witness ==
    /\ Len(hist) >= 2
    /\ Last.op = "into_trie"
    /\ hist[Len(hist) - 1].op = "to_mut"
    /\ trie.root # None
    /\ Unwrap(trie.root).tag = "More"

=============================================================================
